---- MODULE Spec2Model ----
(***************************************************************************)
(* Model of the Kubernetes-as-a-Service HTTP handlers:                     *)
(*   POST /deploy           src/APIs/service_1.py                          *)
(*   POST /deploy_postgres  src/APIs/postgres_api.py                       *)
(*   GET  /status/all       src/APIs/service_3.py                          *)
(* The platform (the Kubernetes API server) is the environment: a create   *)
(* call either stores the object, or raises ApiException with a status.    *)
(***************************************************************************)
EXTENDS Integers, Sequences, FiniteSets, TLC

VARIABLES platform, pc, req, step, log, response,
          deployments, pods, statusResponse

deployVars == <<platform, pc, req, step, log, response>>
statusVars == <<deployments, pods, statusResponse>>
vars == <<platform, pc, req, step, log, response, deployments, pods, statusResponse>>

(***************************************************************************)
(* Bounds of the model.                                                    *)
(***************************************************************************)
\* objects already in the namespace before the modelled requests arrive
MaxPreexisting == 1
\* environment entries of a /deploy request (builder specification)
MaxEnvs == 2
\* container statuses of the pod under classification
MaxContainers == 2
\* pods listed in the namespace (collector inputs)
MaxPods == 2
\* workloads listed in the namespace (collector inputs)
MaxDeployments == 2
\* concurrent request slots
Slots == {1, 2}

AppNames == {"api1", "db"}

(***************************************************************************)
(* Platform statuses.                                                      *)
(***************************************************************************)
Created == 201
Conflict == 409
\* statuses of platform failures other than a naming collision
OtherFailures == {403}

Kinds == {"secret", "configmap", "deployment", "statefulset", "service", "ingress"}

\* f"{app_name}" and f"{app_name}-{suffix}": a name is the application name
\* followed by its suffix, if any
Name(app_name) == <<app_name>>
Suffixed(app_name, suffix) == <<app_name, suffix>>

\* base64.b64encode(v.encode('utf-8')).decode('utf-8'): injective, never the
\* plain text itself
b64encode(v) == <<"b64", v>>

Range(s) == {s[i] : i \in 1..Len(s)}

(***************************************************************************)
(* service_1.py: the specifications built by POST /deploy.                 *)
(***************************************************************************)
\* variant: the loop forgets the IsSecret test and stores every entry
secret_data_every_entry(envs) ==
  LET keys == {envs[i].Key : i \in 1..Len(envs)}
      last(k) == CHOOSE i \in 1..Len(envs) :
                   /\ envs[i].Key = k
                   /\ \A j \in 1..Len(envs) : envs[j].Key = k => j <= i
  IN  [k \in keys |-> b64encode(envs[last(k)].Value)]

\* the dict filled by the loop of create_secret: a later entry with the same
\* key overwrites an earlier one
secret_data(envs) ==
  LET keys == {envs[i].Key : i \in {j \in 1..Len(envs) : envs[j].IsSecret}}
      last(k) == CHOOSE i \in 1..Len(envs) :
                   /\ envs[i].IsSecret /\ envs[i].Key = k
                   /\ \A j \in 1..Len(envs) :
                        (envs[j].IsSecret /\ envs[j].Key = k) => j <= i
  IN  [k \in keys |-> b64encode(envs[last(k)].Value)]

\* create_secret submits only when secret_data is non-empty
create_secret(app_name, envs) ==
  IF DOMAIN secret_data(envs) # {}
  THEN << [kind |-> "secret", name |-> Suffixed(app_name, "secret"),
           payload |-> [data |-> secret_data(envs)]] >>
  ELSE << >>

IsPlain(env) == ~env.IsSecret
IsSecretEnv(env) == env.IsSecret

RECURSIVE MapPlain(_)
MapPlain(envs) ==
  IF envs = << >> THEN << >>
  ELSE << [name |-> Head(envs).Key, value |-> Head(envs).Value] >>
       \o MapPlain(Tail(envs))

RECURSIVE MapSecret(_, _)
MapSecret(app_name, envs) ==
  IF envs = << >> THEN << >>
  ELSE << [name |-> Head(envs).Key,
           secret_key_ref |-> [name |-> Suffixed(app_name, "secret"),
                               key |-> Head(envs).Key]] >>
       \o MapSecret(app_name, Tail(envs))

\* the env list of the container: plain entries by value, then secret-marked
\* entries by reference
container_env(app_name, envs) ==
  MapPlain(SelectSeq(envs, IsPlain))
    \o MapSecret(app_name, SelectSeq(envs, IsSecretEnv))

create_deployment(app_name, replicas, image_address, image_tag, envs, service_port) ==
  << [kind |-> "deployment", name |-> Name(app_name),
      payload |-> [replicas |-> replicas,
                   image |-> <<image_address, image_tag>>,
                   container_port |-> service_port,
                   env |-> container_env(app_name, envs),
                   labels |-> Name(app_name)]] >>

create_service(app_name, service_port) ==
  << [kind |-> "service", name |-> Name(app_name),
      payload |-> [selector |-> Name(app_name), port |-> service_port,
                   target_port |-> service_port, type |-> "ClusterIP"]] >>

create_ingress(app_name, domain_address, service_port) ==
  << [kind |-> "ingress", name |-> Name(app_name),
      payload |-> [host |-> <<domain_address>>,
                   backend_name |-> Name(app_name),
                   backend_port |-> service_port]] >>

\* the calls of create_k8s_objects, in order
create_k8s_objects(q) ==
  create_secret(q.AppName, q.Envs)
    \o create_deployment(q.AppName, q.Replicas, q.ImageAddress, q.ImageTag,
                         q.Envs, q.ServicePort)
    \o create_service(q.AppName, q.ServicePort)
    \o create_ingress(q.AppName, q.DomainAddress, q.ServicePort)

(***************************************************************************)
(* postgres_api.py: the specifications built by POST /deploy_postgres.     *)
(***************************************************************************)
PostgresPort == 5432

pg_create_secret(app_name) ==
  << [kind |-> "secret", name |-> Suffixed(app_name, "secret"),
      payload |-> [data |-> [k \in {"username", "password"} |->
                               b64encode(IF k = "username" THEN "postgres_user"
                                                           ELSE "generated")]]] >>

pg_create_configmap(app_name) ==
  << [kind |-> "configmap", name |-> Suffixed(app_name, "config"),
      payload |-> [data |-> "postgresql.conf"]] >>

pg_create_statefulset(app_name) ==
  << [kind |-> "statefulset", name |-> Name(app_name),
      payload |-> [service_name |-> Name(app_name),
                   replicas |-> 1,
                   container_port |-> PostgresPort,
                   env |-> << [name |-> "POSTGRES_USER",
                               secret_key_ref |-> [name |-> Suffixed(app_name, "secret"),
                                                   key |-> "username"]],
                              [name |-> "POSTGRES_PASSWORD",
                               secret_key_ref |-> [name |-> Suffixed(app_name, "secret"),
                                                   key |-> "password"]] >>,
                   config_map |-> Suffixed(app_name, "config"),
                   claim_template |-> Suffixed(app_name, "pvc"),
                   labels |-> Name(app_name)]] >>

pg_create_service(app_name, external) ==
  << [kind |-> "service", name |-> Name(app_name),
      payload |-> [selector |-> Name(app_name), port |-> PostgresPort,
                   target_port |-> PostgresPort,
                   type |-> IF external THEN "LoadBalancer" ELSE "ClusterIP"]] >>

pg_create_ingress(app_name) ==
  << [kind |-> "ingress", name |-> Name(app_name),
      payload |-> [host |-> <<app_name, "example.com">>,
                   backend_name |-> Name(app_name),
                   backend_port |-> PostgresPort]] >>

\* variant: the ingress is created whatever the External flag says
deploy_postgres_objects_always_ingress(q) ==
  pg_create_secret(q.AppName)
    \o pg_create_configmap(q.AppName)
    \o pg_create_statefulset(q.AppName)
    \o pg_create_service(q.AppName, q.External)
    \o pg_create_ingress(q.AppName)

\* the calls of deploy_postgres, in order
deploy_postgres_objects(q) ==
  pg_create_secret(q.AppName)
    \o pg_create_configmap(q.AppName)
    \o pg_create_statefulset(q.AppName)
    \o pg_create_service(q.AppName, q.External)
    \o (IF q.External THEN pg_create_ingress(q.AppName) ELSE << >>)

Plan(q) ==
  IF q.flow = "deploy" THEN create_k8s_objects(q) ELSE deploy_postgres_objects(q)

(***************************************************************************)
(* The except clauses of the two handlers.                                 *)
(***************************************************************************)
Success == [status |-> 200, body |-> "message"]
Error(status) == [status |-> status, body |-> "error"]
NoResponse == [status |-> 0, body |-> "none"]

\* variant: the handler has no branch for status 409
deploy_application_except_no_409(exc) == Error(500)

\* deploy_application: ApiException 409 -> 409, any other exception -> 500
deploy_application_except(exc) ==
  IF exc.type = "ApiException" /\ exc.status = Conflict
  THEN Error(409)
  ELSE Error(500)

\* deploy_postgres: ApiException -> the platform's status, other -> 500
deploy_postgres_except(exc) ==
  IF exc.type = "ApiException" THEN Error(exc.status) ELSE Error(500)

Except(q, exc) ==
  IF q.flow = "deploy" THEN deploy_application_except(exc)
                       ELSE deploy_postgres_except(exc)

ApiException(status) == [type |-> "ApiException", status |-> status]
KeyError == [type |-> "Exception", status |-> 0]

(***************************************************************************)
(* Requests.                                                               *)
(***************************************************************************)
NoRequest == [flow |-> "none"]

\* defect "field": a field read by the handler before any submission is
\* missing (or postgresql.conf is unreadable); defect "resources": the
\* Resources object lacks the key read while the workload is built
Defects == {"none", "field", "resources"}

EnvKeys == {"MODE", "TOKEN"}
EnvValues == {"prod", "abc"}
EnvEntries == [Key : EnvKeys, Value : EnvValues, IsSecret : BOOLEAN]

SeqsUpTo(S, n) == UNION {[1..k -> S] : k \in 0..n}

DeployRequest(app, envs, defect) ==
  [flow |-> "deploy", AppName |-> app, Replicas |-> 2,
   ImageAddress |-> "repo/img", ImageTag |-> "v1",
   DomainAddress |-> "api1.example.com", ServicePort |-> 8080,
   Envs |-> envs, defect |-> defect]

PostgresRequest(app, external, defect) ==
  [flow |-> "postgres", AppName |-> app, External |-> external, defect |-> defect]

\* requests of the orchestration specification: the environment is empty or
\* holds one secret-marked entry
OrchEnvs == { << >>, << [Key |-> "TOKEN", Value |-> "abc", IsSecret |-> TRUE] >> }
OrchRequests ==
  {DeployRequest(a, e, d) : a \in AppNames, e \in OrchEnvs, d \in Defects}
    \cup {PostgresRequest(a, x, d) : a \in AppNames, x \in BOOLEAN, d \in Defects}

\* requests of the builder specification: every environment list
BuilderRequests ==
  {DeployRequest("api1", e, d) : e \in SeqsUpTo(EnvEntries, MaxEnvs), d \in {"none", "resources"}}

(***************************************************************************)
(* State of the deployment flows.                                          *)
(***************************************************************************)
\* the application whose objects may already be in the namespace
PreexistingApp == "api1"

PlatformKeys == {[kind |-> k, name |-> n] :
                   k \in Kinds,
                   n \in {Name(PreexistingApp), Suffixed(PreexistingApp, "secret"),
                          Suffixed(PreexistingApp, "config")}}

\* names the handlers can ask for, per kind
Plausible(key) ==
  \/ key.kind = "secret" /\ Len(key.name) = 2 /\ key.name[2] = "secret"
  \/ key.kind = "configmap" /\ Len(key.name) = 2 /\ key.name[2] = "config"
  \/ key.kind \in {"deployment", "statefulset", "service", "ingress"} /\ Len(key.name) = 1

Preexisting ==
  {S \in SUBSET {k \in PlatformKeys : Plausible(k)} : Cardinality(S) <= MaxPreexisting}

Exists(kind, name) == \E o \in platform : o.kind = kind /\ o.name = name

Current(r) == Plan(req[r])[step[r]]

\* the Resources key is read while the workload object is built
BuildRaises(r) ==
  /\ req[r].defect = "resources"
  /\ Current(r).kind \in {"deployment", "statefulset"}

Attempt(r, status) ==
  [kind |-> Current(r).kind, name |-> Current(r).name,
   payload |-> Current(r).payload, status |-> status]

NoStatusResponse == [status |-> 0, error |-> FALSE, body |-> << >>]

StatusIdle ==
  /\ deployments = << >>
  /\ pods = << >>
  /\ statusResponse = NoStatusResponse

DeployInit(S) ==
  /\ platform = {[kind |-> k.kind, name |-> k.name, owner |-> 0] : k \in S}
  /\ pc = [r \in Slots |-> "idle"]
  /\ req = [r \in Slots |-> NoRequest]
  /\ step = [r \in Slots |-> 1]
  /\ log = [r \in Slots |-> << >>]
  /\ response = [r \in Slots |-> NoResponse]

Init ==
  /\ \E S \in Preexisting : DeployInit(S)
  /\ StatusIdle

\* the handler reads the request fields (and, for postgres, the config file)
Receive(r, q) ==
  /\ pc[r] = "idle"
  /\ req' = [req EXCEPT ![r] = q]
  /\ IF q.defect = "field"
     THEN /\ pc' = [pc EXCEPT ![r] = "done"]
          /\ response' = [response EXCEPT ![r] = Except(q, KeyError)]
     ELSE /\ pc' = [pc EXCEPT ![r] = "running"]
          /\ UNCHANGED response
  /\ UNCHANGED <<platform, step, log>>
  /\ UNCHANGED statusVars

\* a create call raises ApiException: the handler's except clause answers
Fail(r, status) ==
  /\ log' = [log EXCEPT ![r] = Append(@, Attempt(r, status))]
  /\ pc' = [pc EXCEPT ![r] = "done"]
  /\ response' = [response EXCEPT ![r] = Except(req[r], ApiException(status))]
  /\ UNCHANGED <<platform, req, step>>
  /\ UNCHANGED statusVars

\* the platform stores the object; after the last call the handler returns 200
SubmitCreated(r) ==
  /\ pc[r] = "running"
  /\ ~BuildRaises(r)
  /\ ~Exists(Current(r).kind, Current(r).name)
  /\ platform' = platform \cup
       {[kind |-> Current(r).kind, name |-> Current(r).name, owner |-> r]}
  /\ log' = [log EXCEPT ![r] = Append(@, Attempt(r, Created))]
  /\ IF step[r] = Len(Plan(req[r]))
     THEN /\ pc' = [pc EXCEPT ![r] = "done"]
          /\ response' = [response EXCEPT ![r] = Success]
          /\ UNCHANGED step
     ELSE /\ step' = [step EXCEPT ![r] = @ + 1]
          /\ UNCHANGED <<pc, response>>
  /\ UNCHANGED req
  /\ UNCHANGED statusVars

\* variant: a collision is swallowed and the handler goes on to the next call
SubmitConflict_swallowed(r) ==
  /\ pc[r] = "running"
  /\ ~BuildRaises(r)
  /\ Exists(Current(r).kind, Current(r).name)
  /\ IF step[r] = Len(Plan(req[r]))
     THEN /\ pc' = [pc EXCEPT ![r] = "done"]
          /\ response' = [response EXCEPT ![r] = Success]
          /\ UNCHANGED step
     ELSE /\ step' = [step EXCEPT ![r] = @ + 1]
          /\ UNCHANGED <<pc, response>>
  /\ UNCHANGED <<platform, req, log>>
  /\ UNCHANGED statusVars

\* the platform already holds an object of that kind and name
SubmitConflict(r) ==
  /\ pc[r] = "running"
  /\ ~BuildRaises(r)
  /\ Exists(Current(r).kind, Current(r).name)
  /\ Fail(r, Conflict)

\* variant: a rejected call is logged and the handler goes on to the next call
SubmitRejected_continue(r, status) ==
  /\ pc[r] = "running"
  /\ ~BuildRaises(r)
  /\ log' = [log EXCEPT ![r] = Append(@, Attempt(r, status))]
  /\ IF step[r] = Len(Plan(req[r]))
     THEN /\ pc' = [pc EXCEPT ![r] = "done"]
          /\ response' = [response EXCEPT ![r] = Except(req[r], ApiException(status))]
          /\ UNCHANGED step
     ELSE /\ step' = [step EXCEPT ![r] = @ + 1]
          /\ UNCHANGED <<pc, response>>
  /\ UNCHANGED <<platform, req>>
  /\ UNCHANGED statusVars

\* the platform rejects the object for another reason
SubmitRejected(r, status) ==
  /\ pc[r] = "running"
  /\ ~BuildRaises(r)
  /\ Fail(r, status)

\* building the workload raises KeyError before anything is submitted
InternalError(r) ==
  /\ pc[r] = "running"
  /\ BuildRaises(r)
  /\ pc' = [pc EXCEPT ![r] = "done"]
  /\ response' = [response EXCEPT ![r] = Except(req[r], KeyError)]
  /\ UNCHANGED <<platform, req, step, log>>
  /\ UNCHANGED statusVars

Next ==
  \/ \E r \in Slots, q \in OrchRequests : Receive(r, q)
  \/ \E r \in Slots : SubmitCreated(r)
  \/ \E r \in Slots : SubmitConflict(r)
  \/ \E r \in Slots, s \in OtherFailures : SubmitRejected(r, s)
  \/ \E r \in Slots : InternalError(r)

Spec == Init /\ [][Next]_vars

(***************************************************************************)
(* Properties of the deployment flows.                                     *)
(***************************************************************************)
Received(r) == req[r].flow # "none"
LogIdx(r) == 1..Len(log[r])
Owned(r, a) == [kind |-> a.kind, name |-> a.name, owner |-> r] \in platform
IsAttemptOf(a, s) == a.kind = s.kind /\ a.name = s.name /\ a.payload = s.payload
AttemptsOfKind(r, kind) == {i \in LogIdx(r) : log[r][i].kind = kind}
AllCreated(r) == \A i \in LogIdx(r) : log[r][i].status = Created
LastStatus(r) == log[r][Len(log[r])].status

\* C1: in both flows, when the k-th submission of a request fails, the
\* submissions 1..k-1 of the plan were made, in order, and their objects are
\* still in the platform; the failed submission is the last one the request
\* ever makes; and the request has ended with an error response.
C1_StopAtFirstFailure ==
  \A r \in Slots : \A k \in LogIdx(r) :
    /\ IsAttemptOf(log[r][k], Plan(req[r])[k])
    /\ log[r][k].status = Created => Owned(r, log[r][k])
    /\ log[r][k].status # Created =>
         /\ k = Len(log[r])
         /\ \A i \in 1..(k - 1) : log[r][i].status = Created
         /\ pc[r] = "done"
         /\ response[r].body = "error"
         /\ response[r].status # 200

\* a /deploy request failed at its 2nd submission and a /deploy_postgres
\* request at its 3rd
C1_Witness ==
  \E r1, r2 \in Slots :
    /\ req[r1].flow = "deploy" /\ Len(log[r1]) = 2 /\ LastStatus(r1) # Created
    /\ req[r2].flow = "postgres" /\ Len(log[r2]) = 3 /\ LastStatus(r2) # Created

\* the resources a specification references by name
SecretRefs(env) ==
  {[kind |-> "secret", name |-> env[i].secret_key_ref.name] :
     i \in {j \in 1..Len(env) : "secret_key_ref" \in DOMAIN env[j]}}

References(a) ==
  CASE a.kind = "deployment" -> SecretRefs(a.payload.env)
    [] a.kind = "statefulset" ->
         SecretRefs(a.payload.env)
           \cup {[kind |-> "configmap", name |-> a.payload.config_map],
                 [kind |-> "service", name |-> a.payload.service_name]}
    [] a.kind = "ingress" -> {[kind |-> "service", name |-> a.payload.backend_name]}
    [] OTHER -> {}

SubmittedBefore(r, i, ref) ==
  \E j \in 1..(i - 1) : log[r][j].kind = ref.kind /\ log[r][j].name = ref.name

\* C2: in every execution of either flow, a resource referenced by name from
\* a submitted resource was submitted strictly before it: the secret before
\* the workload, the config map before the stateful workload, the service
\* before the ingress, and the service before the stateful workload that
\* names it as its service.
C2_ReferencedFirst ==
  \A r \in Slots : \A i \in LogIdx(r) :
    \A ref \in References(log[r][i]) : SubmittedBefore(r, i, ref)

\* C3: POST /deploy answers 200 only if every submission succeeded, 409 with
\* an error when a submission collided (whatever its kind), and 500 for any
\* other platform failure or internal failure (a missing field included).
C3_DeployStatus ==
  \A r \in Slots :
    (req[r].flow = "deploy" /\ pc[r] = "done") =>
      /\ response[r].status = 200 =>
           /\ Len(log[r]) = Len(Plan(req[r]))
           /\ AllCreated(r)
           /\ response[r] = Success
      /\ (Len(log[r]) > 0 /\ LastStatus(r) = Conflict) => response[r] = Error(409)
      /\ (Len(log[r]) > 0 /\ LastStatus(r) \in OtherFailures) => response[r] = Error(500)
      /\ (AllCreated(r) /\ req[r].defect # "none") => response[r] = Error(500)
      /\ response[r].status \in {200, 409, 500}

\* a /deploy request whose service collided, answered 409
C3_Witness ==
  \E r \in Slots :
    /\ req[r].flow = "deploy" /\ pc[r] = "done"
    /\ Len(log[r]) > 0 /\ LastStatus(r) = Conflict
    /\ log[r][Len(log[r])].kind = "service"
    /\ response[r] = Error(409)

\* the exposure mode of a request: /deploy has no exposure field and always
\* asks for its DomainAddress to be routed
ExposureExternal(q) == IF q.flow = "deploy" THEN TRUE ELSE q.External

BackendIsOwnService(r, i) ==
  /\ log[r][i].payload.backend_name = Name(req[r].AppName)
  /\ \E s \in 1..Len(Plan(req[r])) :
       /\ Plan(req[r])[s].kind = "service"
       /\ Plan(req[r])[s].name = log[r][i].payload.backend_name
       /\ Plan(req[r])[s].payload.port = log[r][i].payload.backend_port
  /\ \E j \in 1..(i - 1) :
       /\ log[r][j].kind = "service"
       /\ log[r][j].name = log[r][i].payload.backend_name
       /\ log[r][j].payload.port = log[r][i].payload.backend_port

\* every submission of the plan that precedes the ingress was stored
EarlierAllCreated(r) ==
  \A s \in 1..Len(Plan(req[r])) :
    Plan(req[r])[s].kind # "ingress" =>
      (s \in LogIdx(r) /\ log[r][s].status = Created)

\* C4 as stated: for every (well-formed) request that has ended, an internal
\* one submitted no ingress and an external one submitted exactly one ingress,
\* routed to the service of the same name and port.
C4_ExactlyOneIngress ==
  \A r \in Slots :
    (Received(r) /\ req[r].defect = "none" /\ pc[r] = "done") =>
      IF ExposureExternal(req[r])
      THEN /\ Cardinality(AttemptsOfKind(r, "ingress")) = 1
           /\ \A i \in AttemptsOfKind(r, "ingress") : BackendIsOwnService(r, i)
      ELSE AttemptsOfKind(r, "ingress") = {}

\* C4 amended: an internal request submits no ingress; an external one submits
\* at most one, and exactly one once the request has ended if and only if
\* every earlier submission was stored; a submitted ingress routes to the
\* service of the same application name on the port that service exposes.
C4_IngressAfterAllElse ==
  \A r \in Slots :
    Received(r) =>
      /\ ~ExposureExternal(req[r]) => AttemptsOfKind(r, "ingress") = {}
      /\ Cardinality(AttemptsOfKind(r, "ingress")) <= 1
      /\ \A i \in AttemptsOfKind(r, "ingress") : BackendIsOwnService(r, i)
      /\ (ExposureExternal(req[r]) /\ pc[r] = "done") =>
           (Cardinality(AttemptsOfKind(r, "ingress")) = 1 <=> EarlierAllCreated(r))

\* an external postgres request and an internal one have both ended with all
\* their submissions stored
C4_Witness ==
  \E r1, r2 \in Slots :
    /\ req[r1].flow = "postgres" /\ req[r1].External /\ response[r1] = Success
    /\ AttemptsOfKind(r1, "ingress") # {}
    /\ req[r2].flow = "postgres" /\ ~req[r2].External /\ response[r2] = Success

SameAppDeploys ==
  /\ req[1].flow = "deploy" /\ req[2].flow = "deploy"
  /\ req[1].AppName = req[2].AppName

RoutedKinds == {"deployment", "service", "ingress"}

\* C10: two concurrent POST /deploy requests with the same AppName: at most
\* one returns 200; a request that returns 200 created the workload, the
\* service and the ingress of that name; and the objects of those kinds that
\* the two requests created under that name all come from one request.
C10_OneWinner ==
  SameAppDeploys =>
    /\ ~(response[1].status = 200 /\ response[2].status = 200)
    /\ \A r \in Slots :
         response[r].status = 200 =>
           \A k \in RoutedKinds :
             [kind |-> k, name |-> Name(req[r].AppName), owner |-> r] \in platform
    /\ Cardinality({o.owner : o \in {x \in platform :
                                       /\ x.owner # 0
                                       /\ x.kind \in RoutedKinds
                                       /\ x.name = Name(req[1].AppName)}}) <= 1

\* both requests have ended, interleaved: the loser stored its secret, then
\* collided on the workload the winner had created
C10_Witness ==
  /\ SameAppDeploys
  /\ \E w, l \in Slots :
       /\ w # l
       /\ response[w] = Success
       /\ response[l] = Error(409)
       /\ Len(log[l]) = 2 /\ log[l][1].kind = "secret" /\ log[l][2].kind = "deployment"

(***************************************************************************)
(* The builder specification: one request, every environment list.         *)
(***************************************************************************)
NextBuilder ==
  \/ \E q \in BuilderRequests : Receive(1, q)
  \/ SubmitCreated(1)
  \/ SubmitConflict(1)
  \/ \E s \in OtherFailures : SubmitRejected(1, s)
  \/ InternalError(1)

SpecBuilder == Init /\ [][NextBuilder]_vars

\* the secret and the workload a /deploy request has submitted so far
SecretOf(r) == log[r][CHOOSE i \in AttemptsOfKind(r, "secret") : TRUE]
WorkloadOf(r) == log[r][CHOOSE i \in AttemptsOfKind(r, "deployment") : TRUE]
SecretMarked(envs) == {i \in 1..Len(envs) : envs[i].IsSecret}
PlainMarked(envs) == {i \in 1..Len(envs) : ~envs[i].IsSecret}

\* C9: once POST /deploy has made its first submission or ended, it has
\* submitted a secret named {AppName}-secret if and only if some environment
\* entry is marked secret; the secret's keys are the keys of the marked
\* entries; in the submitted workload each marked entry is a reference to a
\* key of that secret, each plain entry is copied by value, and the workload
\* has no other environment variable.
C9_SecretIffMarked ==
  \A r \in Slots :
    (req[r].flow = "deploy" /\ req[r].defect # "field"
       /\ (pc[r] = "done" \/ Len(log[r]) > 0)) =>
      LET envs == req[r].Envs IN
      /\ AttemptsOfKind(r, "secret") # {} <=> SecretMarked(envs) # {}
      /\ Cardinality(AttemptsOfKind(r, "secret")) <= 1
      /\ AttemptsOfKind(r, "secret") # {} =>
           /\ SecretOf(r).name = Suffixed(req[r].AppName, "secret")
           /\ DOMAIN SecretOf(r).payload.data = {envs[i].Key : i \in SecretMarked(envs)}
      /\ AttemptsOfKind(r, "deployment") # {} =>
           LET env == WorkloadOf(r).payload.env IN
           /\ \A i \in SecretMarked(envs) :
                \E v \in Range(env) :
                  /\ v.name = envs[i].Key
                  /\ "secret_key_ref" \in DOMAIN v
                  /\ v.secret_key_ref.name = SecretOf(r).name
                  /\ v.secret_key_ref.key \in DOMAIN SecretOf(r).payload.data
                  /\ v.secret_key_ref.key = envs[i].Key
           /\ \A i \in PlainMarked(envs) :
                \E v \in Range(env) :
                  /\ v.name = envs[i].Key
                  /\ "value" \in DOMAIN v
                  /\ v.value = envs[i].Value
           /\ Len(env) = Len(envs)
           /\ \A v \in Range(env) :
                IF "value" \in DOMAIN v
                THEN \E i \in PlainMarked(envs) :
                       v.name = envs[i].Key /\ v.value = envs[i].Value
                ELSE \E i \in SecretMarked(envs) : v.name = envs[i].Key

\* a workload was stored for a request with a plain and a secret-marked entry
C9_Witness ==
  \E r \in Slots :
    /\ req[r].flow = "deploy"
    /\ SecretMarked(req[r].Envs) # {} /\ PlainMarked(req[r].Envs) # {}
    /\ AttemptsOfKind(r, "secret") # {}
    /\ \E i \in AttemptsOfKind(r, "deployment") : log[r][i].status = Created

(***************************************************************************)
(* service_3.py: GET /status/all.                                          *)
(***************************************************************************)
IngressController == "nginx-ingress-ingress-nginx-controller"
ListedReasons == {"CrashLoopBackOff", "ImagePullBackOff", "ErrImagePull", "Pending"}

\* the first loop over container_statuses: False at the first container that
\* is not ready
containers_ready(container_statuses) ==
  \A i \in 1..Len(container_statuses) : container_statuses[i].ready

\* the test guarding ready_replicas += 1
counts_ready(pod) ==
  pod.phase = "Running" /\ containers_ready(pod.container_statuses)

\* variant: the scan stops at the first container terminated "Completed"
RECURSIVE scan_completed_breaks(_, _)
scan_completed_breaks(container_statuses, phase) ==
  IF container_statuses = << >> THEN phase
  ELSE LET c == Head(container_statuses) IN
       IF c.waiting # "None" /\ c.waiting \in ListedReasons
       THEN c.waiting
       ELSE IF c.terminated = "Completed" THEN "Completed"
            ELSE scan_completed_breaks(Tail(container_statuses), phase)

\* the second loop over container_statuses: a listed waiting reason replaces
\* the phase and ends the loop; a terminated reason "Completed" replaces the
\* phase and the loop goes on
RECURSIVE scan(_, _)
scan(container_statuses, phase) ==
  IF container_statuses = << >> THEN phase
  ELSE LET c == Head(container_statuses) IN
       IF c.waiting # "None" /\ c.waiting \in ListedReasons
       THEN c.waiting
       ELSE scan(Tail(container_statuses),
                 IF c.terminated # "None" /\ c.terminated = "Completed"
                 THEN "Completed" ELSE phase)

pod_status(pod) ==
  [Name |-> pod.name, Phase |-> scan(pod.container_statuses, pod.phase)]

\* v1.list_namespaced_pod(label_selector=f"app={app_name}")
list_namespaced_pod(app_name) == SelectSeq(pods, LAMBDA p : p.app = app_name)

RECURSIVE CountReady(_)
CountReady(pod_list) ==
  IF pod_list = << >> THEN 0
  ELSE (IF counts_ready(Head(pod_list)) THEN 1 ELSE 0) + CountReady(Tail(pod_list))

application_status(deployment) ==
  LET pod_list == list_namespaced_pod(deployment.name) IN
  [DeploymentName |-> deployment.name,
   Replicas |-> deployment.replicas,
   ReadyReplicas |-> CountReady(pod_list),
   PodStatuses |-> [j \in 1..Len(pod_list) |-> pod_status(pod_list[j])]]

\* variant: the loop has no `continue` for the ingress controller
RECURSIVE all_statuses_no_skip(_)
all_statuses_no_skip(items) ==
  IF items = << >> THEN << >>
  ELSE << application_status(Head(items)) >> \o all_statuses_no_skip(Tail(items))

\* the loop over deployments.items
RECURSIVE all_statuses(_)
all_statuses(items) ==
  IF items = << >> THEN << >>
  ELSE IF Head(items).name = IngressController
       THEN all_statuses(Tail(items))
       ELSE << application_status(Head(items)) >> \o all_statuses(Tail(items))

(***************************************************************************)
(* The namespaces GET /status/all is run against.                          *)
(***************************************************************************)
RawPhases == {"Running", "Pending", "Succeeded"}
WaitingReasons == {"None", "CrashLoopBackOff", "ImagePullBackOff", "ContainerCreating"}
TerminatedReasons == {"None", "Completed", "Error"}
\* a container state has at most one of waiting and terminated set ("None":
\* the member is absent)
ContainerStatuses ==
  {c \in [ready : BOOLEAN, waiting : WaitingReasons, terminated : TerminatedReasons] :
     c.waiting = "None" \/ c.terminated = "None"}

Running == [ready |-> TRUE, waiting |-> "None", terminated |-> "None"]
Crashing == [ready |-> FALSE, waiting |-> "CrashLoopBackOff", terminated |-> "None"]

\* one workload with one pod, every list of container statuses
OnePodNamespaces ==
  {[deployments |-> << [name |-> "web", replicas |-> 2] >>,
    pods |-> << [name |-> 1, app |-> "web", phase |-> ph, container_statuses |-> cs] >>] :
     ph \in RawPhases, cs \in SeqsUpTo(ContainerStatuses, MaxContainers)}

DeploymentNames == {"web", "api", IngressController}
Listings ==
  {l \in SeqsUpTo([name : DeploymentNames, replicas : {1, 2}], MaxDeployments) :
     \A i, j \in 1..Len(l) : l[i].name = l[j].name => i = j}
PodProtos ==
  [app : {"web", "api"}, phase : {"Running", "Pending"},
   container_statuses : {<< Running >>, << Crashing >>}]
Named(protos) ==
  [i \in 1..Len(protos) |->
     [name |-> i, app |-> protos[i].app, phase |-> protos[i].phase,
      container_statuses |-> protos[i].container_statuses]]

\* several workloads and pods, single-container pods
ManyPodNamespaces ==
  {[deployments |-> l, pods |-> Named(ps)] :
     l \in Listings, ps \in SeqsUpTo(PodProtos, MaxPods)}

InitStatus ==
  /\ DeployInit({})
  /\ \E ns \in OnePodNamespaces \cup ManyPodNamespaces :
       /\ deployments = ns.deployments
       /\ pods = ns.pods
  /\ statusResponse = NoStatusResponse

\* the handler, both listings answered
get_all_applications_status ==
  /\ statusResponse' = [status |-> 200, error |-> FALSE, body |-> all_statuses(deployments)]
  /\ UNCHANGED <<deployments, pods>>
  /\ UNCHANGED deployVars

\* the handler, a listing raised ApiException
get_all_applications_status_except ==
  /\ statusResponse' = [status |-> 500, error |-> TRUE, body |-> << >>]
  /\ UNCHANGED <<deployments, pods>>
  /\ UNCHANGED deployVars

NextStatus ==
  \/ get_all_applications_status
  \/ get_all_applications_status_except

SpecStatus == InitStatus /\ [][NextStatus]_vars

(***************************************************************************)
(* Properties of GET /status/all.                                          *)
(***************************************************************************)
Answered == statusResponse.status = 200
Apps == 1..Len(statusResponse.body)
\* the pods behind the i-th Application Status, in the platform's order
PodsOf(i) == list_namespaced_pod(statusResponse.body[i].DeploymentName)
Reported(i, j) == statusResponse.body[i].PodStatuses[j]
PodIdx(i) == 1..Len(PodsOf(i))
ReadyReplicas(i) == statusResponse.body[i].ReadyReplicas

AllReady(pod) == \A c \in Range(pod.container_statuses) : c.ready
RunningAndReady(pod) == pod.phase = "Running" /\ AllReady(pod)
WaitsFor(pod, reason) == \E c \in Range(pod.container_statuses) : c.waiting = reason
WaitsListed(pod) == \E reason \in ListedReasons : WaitsFor(pod, reason)
HasCompleted(pod) == \E c \in Range(pod.container_statuses) : c.terminated = "Completed"

\* C5: every pod whose platform phase is "Running" and all of whose
\* containers are ready is reported with Phase "Running" and is counted in
\* ReadyReplicas, whatever waiting or terminated state its containers carry.
C5_RunningReadyWins ==
  Answered =>
    \A i \in Apps :
      /\ \A j \in PodIdx(i) :
           RunningAndReady(PodsOf(i)[j]) => Reported(i, j).Phase = "Running"
      /\ ReadyReplicas(i) >= Cardinality({j \in PodIdx(i) : RunningAndReady(PodsOf(i)[j])})

\* C6: a pod with a container waiting for "CrashLoopBackOff" is reported with
\* Phase "CrashLoopBackOff" and is not counted in ReadyReplicas, wherever the
\* container is in the list and whatever the other containers' states.
C6_CrashLoopWins ==
  Answered =>
    \A i \in Apps :
      /\ \A j \in PodIdx(i) :
           WaitsFor(PodsOf(i)[j], "CrashLoopBackOff") =>
             Reported(i, j).Phase = "CrashLoopBackOff"
      /\ ReadyReplicas(i) <=
           Cardinality({j \in PodIdx(i) : ~WaitsFor(PodsOf(i)[j], "CrashLoopBackOff")})

CompletedOnly(pod) == HasCompleted(pod) /\ ~WaitsListed(pod)

ListedReasonReported(i, j) ==
  /\ Reported(i, j).Phase \in ListedReasons
  /\ WaitsFor(PodsOf(i)[j], Reported(i, j).Phase)

RECURSIVE Without(_, _)
Without(items, name) ==
  IF items = << >> THEN << >>
  ELSE IF Head(items).name = name THEN Without(Tail(items), name)
       ELSE << Head(items) >> \o Without(Tail(items), name)

MatchingPods(app_name) == {k \in 1..Len(pods) : pods[k].app = app_name}

\* C8: a successful answer holds one Application Status per listed workload
\* other than the ingress controller, in listing order, with the workload's
\* replica count, one pod status per pod carrying the label app=<name> (in
\* the platform's order), and ReadyReplicas at most the number of pod statuses.
C8_OnePerWorkload ==
  Answered =>
    LET kept == Without(deployments, IngressController) IN
    /\ Len(statusResponse.body) = Len(kept)
    /\ \A i \in Apps :
         LET st == statusResponse.body[i] IN
         /\ st.DeploymentName = kept[i].name
         /\ st.DeploymentName # IngressController
         /\ st.Replicas = kept[i].replicas
         /\ Len(st.PodStatuses) = Cardinality(MatchingPods(kept[i].name))
         /\ \A j, k \in 1..Len(st.PodStatuses) :
              j < k => st.PodStatuses[j].Name < st.PodStatuses[k].Name
         /\ \A j \in 1..Len(st.PodStatuses) :
              st.PodStatuses[j].Name \in {pods[k].name : k \in MatchingPods(kept[i].name)}
         /\ st.ReadyReplicas >= 0
         /\ st.ReadyReplicas <= Len(st.PodStatuses)

\* the listing holds the ingress controller and a workload with two pods
C8_Witness ==
  /\ Answered
  /\ Len(deployments) = 2
  /\ deployments[1].name = IngressController
  /\ Len(statusResponse.body) = 1
  /\ Len(statusResponse.body[1].PodStatuses) = 2
  /\ statusResponse.body[1].ReadyReplicas = 1

====
